---- MODULE Spec2Model ----
(***************************************************************************)
(* Endpoint resolution of aws/rust-runtime/operation/src/endpoint.rs:      *)
(* StaticEndpoint (constructors, uri, apply), ProvideEndpoint::set_endpoint *)
(* and the two OperationMiddleware implementations that drive it.          *)
(*                                                                         *)
(* Text is a sequence of one-character strings, so that parsing            *)
(* (Uri::from_str) and rendering (Uri's Display) are computed character by *)
(* character.  An http::Uri is the record of its three stored parts:       *)
(*   scheme          <<>> when the URI has no scheme                       *)
(*   authority       <<>> when the URI has no authority                    *)
(*   path_and_query  the stored text, <<>> when nothing is stored          *)
(* The texts of the model are lower-case ASCII, so the case-insensitive    *)
(* match of "http"/"https" in the parser coincides with equality.          *)
(***************************************************************************)
EXTENDS Integers, Sequences, FiniteSets, TLC

\* ------------------------------------------------------------------ bounds
NumEndpoints == 2      \* descriptor slots of the client configuration
NumRequests  == 2      \* requests in flight at the same time
MaxSteps     == 2      \* endpoint steps run on one request
MaxLen       == 2      \* longest service / region name tried

\* http::uri::MAX_LEN, the longest text Uri::from_str accepts (u16::MAX - 1)
MAX_LEN == 65535 - 1

\* --------------------------------------------------------------- text
None == <<>>

\* SCHEME_CHARS of the parser: letters, digits, '+', '-' and '.'
SchemeChars == {"a", "b", "c", "d", "e", "f", "g", "h", "i", "j", "k", "l", "m",
                "n", "o", "p", "q", "r", "s", "t", "u", "v", "w", "x", "y", "z",
                "0", "1", "2", "3", "4", "5", "6", "7", "8", "9", "+", "-", "."}

FirstIn(s, cs) ==
    IF \E i \in 1..Len(s) : s[i] \in cs
    THEN CHOOSE i \in 1..Len(s) : s[i] \in cs /\ \A j \in 1..(i - 1) : s[j] \notin cs
    ELSE Len(s) + 1

Count(s, c) == Cardinality({i \in 1..Len(s) : s[i] = c})

Prefix(s, n) == SubSeq(s, 1, n)
Suffix(s, n) == SubSeq(s, n, Len(s))

\* ------------------------------------------------------------ http::Uri
MkUri(s, a, pq) == [scheme |-> s, authority |-> a, path_and_query |-> pq]

NoUri == MkUri(None, None, None)

Some(v)  == [some |-> TRUE, val |-> v]
Absent(v) == [some |-> FALSE, val |-> v]

\* Uri::scheme(), Uri::authority(): None when the stored part is empty
scheme(u)    == IF u.scheme = None THEN Absent(None) ELSE Some(u.scheme)
authority(u) == IF u.authority = None THEN Absent(None) ELSE Some(u.authority)

\* Uri::has_path()
has_path(u) == u.path_and_query # None \/ u.scheme # None

\* Uri::path_and_query(): Some exactly when the URI has a path
path_and_query(u) == IF has_path(u) THEN Some(u.path_and_query) ELSE Absent(None)

\* PathAndQuery::path(): the text before '?', "/" when that is empty
pq_path(data) ==
    LET p == Prefix(data, FirstIn(data, {"?"}) - 1)
    IN  IF p = <<>> THEN <<"/">> ELSE p

\* PathAndQuery::query(): the text after the first '?', if there is one
pq_query(data) ==
    LET q == FirstIn(data, {"?"})
    IN  IF q > Len(data) THEN Absent(None) ELSE Some(Suffix(data, q + 1))

\* Uri::path(), Uri::query()
path(u)  == IF has_path(u) THEN pq_path(u.path_and_query) ELSE <<>>
query(u) == pq_query(u.path_and_query)

\* <Uri as Display>::fmt, i.e. uri.to_string()
to_string(u) ==
    (IF scheme(u).some THEN scheme(u).val \o <<":", "/", "/">> ELSE <<>>)
    \o (IF authority(u).some THEN authority(u).val ELSE <<>>)
    \o path(u)
    \o (IF query(u).some THEN <<"?">> \o query(u).val ELSE <<>>)

Ok(u)  == [ok |-> TRUE, uri |-> u, err |-> ""]
Err(e) == [ok |-> FALSE, uri |-> NoUri, err |-> e]

\* PathAndQuery::from_shared: the fragment ('#' and what follows) is dropped
pq_parse(s) == Prefix(s, FirstIn(s, {"#"}) - 1)

\* Scheme2::parse: the length of the scheme when the text starts with
\* scheme characters followed by "://", -1 otherwise
scheme_end(s) ==
    LET i == FirstIn(s, {c \in {s[k] : k \in 1..Len(s)} : c \notin SchemeChars})
    IN  IF i + 2 <= Len(s) /\ s[i] = ":" /\ s[i + 1] = "/" /\ s[i + 2] = "/"
        THEN i - 1 ELSE -1

\* Uri::from_str (Uri::from_shared and parse_full)
Uri_from_str(s) ==
    IF Len(s) > MAX_LEN THEN Err("TooLong")
    ELSE IF s = <<>> THEN Err("Empty")
    ELSE IF s[1] = "/" THEN Ok(MkUri(None, None, pq_parse(s)))
    ELSE
      LET n    == scheme_end(s)
          sch  == IF n < 0 THEN None ELSE Prefix(s, n)
          rest == IF n < 0 THEN s ELSE Suffix(s, n + 4)
          aend == FirstIn(rest, {"/", "?", "#"}) - 1
          auth == Prefix(rest, aend)
      IN  IF Count(auth, ":") > 1 THEN Err("InvalidAuthority")
          ELSE IF n < 0
          THEN IF aend # Len(rest) THEN Err("InvalidFormat")
               ELSE Ok(MkUri(None, auth, None))
          ELSE IF aend = 0 THEN Err("InvalidFormat")
               ELSE Ok(MkUri(sch, auth, pq_parse(Suffix(rest, aend + 1))))

\* Uri::from_parts, reached through Builder::build
Uri_from_parts(s, a, pq) ==
    IF s.some
    THEN IF ~a.some THEN Err("AuthorityMissing")
         ELSE IF ~pq.some THEN Err("PathAndQueryMissing")
         ELSE Ok(MkUri(s.val, a.val, pq.val))
    ELSE IF a.some /\ pq.some THEN Err("SchemeMissing")
         ELSE Ok(MkUri(None, IF a.some THEN a.val ELSE None,
                             IF pq.some THEN pq.val ELSE None))

\* Uri::into_parts (From<Uri> for Parts)
into_parts(u) == [scheme |-> scheme(u), authority |-> authority(u),
                  path_and_query |-> path_and_query(u)]

\* ------------------------------------------------------- StaticEndpoint
Returned(u)   == [panic |-> "", uri |-> u]
Panicked(msg) == [panic |-> msg, uri |-> NoUri]

HttpsPrefix == <<"h", "t", "t", "p", "s", ":", "/", "/">>
AwsSuffix   == <<".", "a", "m", "a", "z", "o", "n", "a", "w", "s", ".", "c", "o", "m">>

\* format!("https://{}.{}.amazonaws.com", svc, region)
format(svc, region) == HttpsPrefix \o svc \o <<".">> \o region \o AwsSuffix

\* mutant: the service and the region change places in the host name
from_service_region_Swapped(svc, region) ==
    LET parsed == Uri_from_str(format(region, svc))
    IN  IF parsed.ok THEN Returned(parsed.uri)
        ELSE Panicked("called Result::unwrap() on an Err value")

\* StaticEndpoint::from_service_region: Uri::from_str(..).unwrap()
from_service_region(svc, region) ==
    LET parsed == Uri_from_str(format(svc, region))
    IN  IF parsed.ok THEN Returned(parsed.uri)
        ELSE Panicked("called Result::unwrap() on an Err value")

\* StaticEndpoint::from_uri: wraps the URI as it is
from_uri(u) == u

\* StaticEndpoint::uri
uri(self) == self

\* the message of Option::unwrap on None
UnwrapNone == "called Option::unwrap() on a None value"

\* the three expects of apply, then Builder::build
Compose(s, a, pq) ==
    IF ~a.some THEN Panicked("base uri must have an authority")
    ELSE IF ~s.some THEN Panicked("base uri must have scheme")
    ELSE IF ~pq.some THEN Panicked(UnwrapNone)
    ELSE LET built == Uri_from_parts(s, a, pq)
         IN  IF built.ok THEN Returned(built.uri) ELSE Panicked("valid uri")

\* mutant: the descriptor's own path-and-query is used
apply_OwnPathAndQuery(self, base_uri) ==
    LET parts == into_parts(self)
    IN  Compose(parts.scheme, parts.authority, parts.path_and_query)

\* mutant: an authority the request already has is kept
apply_KeepsAuthority(self, base_uri) ==
    LET parts == into_parts(self)
    IN  Compose(parts.scheme,
                IF authority(base_uri).some /\ parts.authority.some
                THEN authority(base_uri) ELSE parts.authority,
                path_and_query(base_uri))

\* mutant: a scheme the request already has is kept
apply_KeepsScheme(self, base_uri) ==
    LET parts == into_parts(self)
    IN  Compose(IF scheme(base_uri).some /\ parts.scheme.some
                THEN scheme(base_uri) ELSE parts.scheme,
                parts.authority,
                path_and_query(base_uri))

\* mutant: the request's path is appended to the descriptor's
apply_JoinsPaths(self, base_uri) ==
    LET parts == into_parts(self)
        pq    == path_and_query(base_uri)
    IN  Compose(parts.scheme, parts.authority,
                IF pq.some /\ parts.path_and_query.some
                THEN Some(parts.path_and_query.val \o pq.val) ELSE pq)

\* mutant: a missing path-and-query is replaced by "/" (unwrap_or_default)
apply_DefaultsPath(self, base_uri) ==
    LET parts == into_parts(self)
        pq    == path_and_query(base_uri)
    IN  Compose(parts.scheme, parts.authority, IF pq.some THEN pq ELSE Some(<<"/">>))

\* StaticEndpoint::apply
apply(self, base_uri) ==
    LET parts == into_parts(self)
        pq    == path_and_query(base_uri)
    IN  IF ~parts.authority.some THEN Panicked("base uri must have an authority")
        ELSE IF ~parts.scheme.some THEN Panicked("base uri must have scheme")
        ELSE IF ~pq.some THEN Panicked(UnwrapNone)
        ELSE LET built == Uri_from_parts(parts.scheme, parts.authority, pq)
             IN  IF built.ok THEN Returned(built.uri) ELSE Panicked("valid uri")

\* --------------------------------------------------------------- inputs
Endpoints == 1..NumEndpoints
Requests  == 1..NumRequests

\* the slot of the descriptor that is built first and shared
Shared == CHOOSE d \in Endpoints : \A e \in Endpoints : d <= e

\* texts handed to Uri::from_str by the callers of this module
TxtGet       == <<"/", "g", "e", "t", "?", "k", "=", "1", "2", "3", "&", "v", "=", "4", "5", "6">>
TxtOtherHost == <<"h", "t", "t", "p", ":", "/", "/", "h", "/", "p", "?", "q">>
TxtBareHost  == <<"h", "t", "t", "p", "s", ":", "/", "/", "h">>
TxtAuthority == <<"h", ":", "8", "0">>
TxtLocalhost == <<"h", "t", "t", "p", ":", "/", "/", "l", "o", "c", "a", "l", "h", "o", "s", "t",
                  ":", "8", "0", "8", "0", "/">>
TxtWithPath  == <<"h", "t", "t", "p", "s", ":", "/", "/", "e", "/", "d", "?", "x">>
TxtPathOnly  == <<"/", "x">>

\* URIs a request can carry when it enters the step
RequestUris  == {Uri_from_str(t).uri : t \in {TxtGet, TxtOtherHost, TxtBareHost, TxtAuthority}}
\* URIs handed to from_uri
EndpointUris == {Uri_from_str(t).uri : t \in {TxtLocalhost, TxtWithPath, TxtAuthority, TxtPathOnly}}

Services == {<<"s", "3">>}
Regions  == {<<"u", "s">>}

\* service / region names tried against the template
Alphabet == {"s", "3", "-", "/", "?"}
Names    == UNION {[1..n -> Alphabet] : n \in 0..MaxLen}
Special  == {"/", "?", "#", ":", "@", "[", "]"}
Plain(name) == name # <<>> /\ \A i \in 1..Len(name) : name[i] \notin Special

\* ---------------------------------------------------------------- state
VARIABLES
    endpoint,   \* endpoint[d]: Option<StaticEndpoint>, the descriptor of slot d
    ctor,       \* history: how slot d was constructed, and from what
    request,    \* request[r]: the Operation, its base.uri and its endpoint_config
    pc,         \* where the step running on request r stands
    self,       \* the provider whose set_endpoint runs on request r
    new_uri,    \* the local new_uri of set_endpoint on request r
    result,     \* what the middleware apply returned on request r
    panic,      \* the panic message that ended request r, "" if none
    via,        \* which OperationMiddleware implementation runs on request r
    pre,        \* history: the URI of request r when the current step was called
    applied,    \* history: the slot and the implementation of each step that returned on r
    trail       \* history: the URI of request r when it entered, then after each step

vars == <<endpoint, ctor, request, pc, self, new_uri, result, panic, via, pre, applied, trail>>
reqvars == <<request, pc, self, new_uri, result, panic, via, pre, applied, trail>>

NoCtor == [name |-> "none", svc |-> <<>>, region |-> <<>>, arg |-> NoUri]

InitEndpoints ==
    /\ endpoint = [d \in Endpoints |-> Absent(NoUri)]
    /\ ctor     = [d \in Endpoints |-> NoCtor]

\* the requests of `driven` draw their URI and their configured slot; the
\* others stay as they are built by default and are never stepped
InitRequests(driven, uris, slots) ==
    /\ request \in {f \in [Requests -> [uri : uris \cup {NoUri}, endpoint_config : Endpoints]] :
                      \A r \in Requests :
                         IF r \in driven THEN f[r].uri \in uris /\ f[r].endpoint_config \in slots
                         ELSE f[r] = [uri |-> NoUri, endpoint_config |-> Shared]}
    /\ pc      = [r \in Requests |-> "idle"]
    /\ self    = [r \in Requests |-> 0]
    /\ new_uri = [r \in Requests |-> NoUri]
    /\ result  = [r \in Requests |-> "none"]
    /\ panic   = [r \in Requests |-> ""]
    /\ via     = [r \in Requests |-> "none"]
    /\ pre     = [r \in Requests |-> request[r].uri]
    /\ applied = [r \in Requests |-> <<>>]
    /\ trail   = [r \in Requests |-> <<request[r].uri>>]

\* one request going through the pipeline, which may hold several endpoint steps
Pipeline == {1}

Init == InitEndpoints /\ InitRequests(Pipeline, RequestUris, Endpoints)

\* ---------------------------------------------------------- construction
\* StaticEndpoint::from_uri(u), stored in slot d
FromUri(d, u) ==
    /\ ctor[d].name = "none"
    /\ endpoint' = [endpoint EXCEPT ![d] = Some(from_uri(u))]
    /\ ctor' = [ctor EXCEPT ![d] = [NoCtor EXCEPT !.name = "from_uri", !.arg = u]]
    /\ UNCHANGED reqvars

\* StaticEndpoint::from_service_region(svc, region), stored in slot d; the
\* unwrap of a text that does not parse panics and leaves no descriptor
FromServiceRegion(d, svc, region) ==
    /\ ctor[d].name = "none"
    /\ LET made == from_service_region(svc, region)
       IN  /\ endpoint' = [endpoint EXCEPT ![d] =
                              IF made.panic = "" THEN Some(made.uri) ELSE @]
           /\ ctor' = [ctor EXCEPT ![d] =
                          [NoCtor EXCEPT !.name = IF made.panic = "" THEN "from_service_region"
                                                  ELSE "panicked",
                                         !.svc = svc, !.region = region]]
    /\ UNCHANGED reqvars

\* ------------------------------------------------------------- the step
Enter(r, d, impl) ==
    /\ pc[r] = "idle"
    /\ endpoint[d].some
    /\ pc'     = [pc EXCEPT ![r] = "set_endpoint"]
    /\ self'   = [self EXCEPT ![r] = d]
    /\ via'    = [via EXCEPT ![r] = impl]
    /\ pre'    = [pre EXCEPT ![r] = request[r].uri]
    /\ result' = [result EXCEPT ![r] = "none"]
    /\ UNCHANGED <<endpoint, ctor, request, new_uri, panic, applied, trail>>

\* EndpointMiddleware::apply: the provider is read from request.endpoint_config
EndpointMiddlewareApply(r) == Enter(r, request[r].endpoint_config, "EndpointMiddleware")

\* impl OperationMiddleware for T: ProvideEndpoint: the provider is the step itself
BlanketApply(r, d) == Enter(r, d, "blanket")

\* mutant: a failed apply comes back from the step as Err
SetEndpointApply_ReturnsErr(r) ==
    /\ pc[r] = "set_endpoint"
    /\ LET got == apply(endpoint[self[r]].val, request[r].uri)
       IN  IF got.panic = ""
           THEN /\ new_uri' = [new_uri EXCEPT ![r] = got.uri]
                /\ pc' = [pc EXCEPT ![r] = "assign"]
                /\ UNCHANGED result
           ELSE /\ result' = [result EXCEPT ![r] = "Err"]
                /\ pc' = [pc EXCEPT ![r] = "idle"]
                /\ UNCHANGED new_uri
    /\ UNCHANGED <<endpoint, ctor, request, self, panic, via, pre, applied, trail>>

\* mutant: new_uri is one variable shared by every call of set_endpoint
SetEndpointApply_SharedLocal(r) ==
    /\ pc[r] = "set_endpoint"
    /\ LET got == apply(endpoint[self[r]].val, request[r].uri)
       IN  IF got.panic = ""
           THEN /\ new_uri' = [q \in Requests |-> got.uri]
                /\ pc' = [pc EXCEPT ![r] = "assign"]
                /\ UNCHANGED panic
           ELSE /\ panic' = [panic EXCEPT ![r] = got.panic]
                /\ pc' = [pc EXCEPT ![r] = "panicked"]
                /\ UNCHANGED new_uri
    /\ UNCHANGED <<endpoint, ctor, request, self, result, via, pre, applied, trail>>

\* set_endpoint, `let new_uri = self.apply(request_uri)`
SetEndpointApply(r) ==
    /\ pc[r] = "set_endpoint"
    /\ LET got == apply(endpoint[self[r]].val, request[r].uri)
       IN  IF got.panic = ""
           THEN /\ new_uri' = [new_uri EXCEPT ![r] = got.uri]
                /\ pc' = [pc EXCEPT ![r] = "assign"]
                /\ UNCHANGED panic
           ELSE /\ panic' = [panic EXCEPT ![r] = got.panic]
                /\ pc' = [pc EXCEPT ![r] = "panicked"]
                /\ UNCHANGED new_uri
    /\ UNCHANGED <<endpoint, ctor, request, self, result, via, pre, applied, trail>>

\* mutant: the new URI is computed and dropped
SetEndpointAssign_NoWrite(r) ==
    /\ pc[r] = "assign"
    /\ pc' = [pc EXCEPT ![r] = "return"]
    /\ UNCHANGED <<endpoint, ctor, request, self, new_uri, result, panic, via, pre, applied, trail>>

\* mutant: the new URI is also stored in the descriptor
SetEndpointAssign_IntoSelf(r) ==
    /\ pc[r] = "assign"
    /\ request' = [request EXCEPT ![r].uri = new_uri[r]]
    /\ endpoint' = [endpoint EXCEPT ![self[r]] = Some(new_uri[r])]
    /\ pc' = [pc EXCEPT ![r] = "return"]
    /\ UNCHANGED <<ctor, self, new_uri, result, panic, via, pre, applied, trail>>

\* set_endpoint, `*request_uri = new_uri`
SetEndpointAssign(r) ==
    /\ pc[r] = "assign"
    /\ request' = [request EXCEPT ![r].uri = new_uri[r]]
    /\ pc' = [pc EXCEPT ![r] = "return"]
    /\ UNCHANGED <<endpoint, ctor, self, new_uri, result, panic, via, pre, applied, trail>>

\* the middleware's `Ok(())`
MiddlewareReturn(r) ==
    /\ pc[r] = "return"
    /\ result'  = [result EXCEPT ![r] = "Ok"]
    /\ pc'      = [pc EXCEPT ![r] = "idle"]
    /\ applied' = [applied EXCEPT ![r] = Append(@, [d |-> self[r], via |-> via[r]])]
    /\ trail'   = [trail EXCEPT ![r] = Append(@, request[r].uri)]
    /\ UNCHANGED <<endpoint, ctor, request, self, new_uri, panic, via, pre>>

Next ==
    \/ \E d \in Endpoints, u \in EndpointUris : FromUri(d, u)
    \/ \E d \in Endpoints, svc \in Services, region \in Regions : FromServiceRegion(d, svc, region)
    \/ \E r \in Pipeline : Len(applied[r]) < MaxSteps /\ EndpointMiddlewareApply(r)
    \/ \E r \in Pipeline, d \in Endpoints : Len(applied[r]) < MaxSteps /\ BlanketApply(r, d)
    \/ \E r \in Pipeline : SetEndpointApply(r)
    \/ \E r \in Pipeline : SetEndpointAssign(r)
    \/ \E r \in Pipeline : MiddlewareReturn(r)

Spec == Init /\ [][Next]_vars

\* Concurrent requests: the descriptor of the first slot was built with the
\* client and is shared by every request; each request runs the step once.
ConcurrentUris == {Uri_from_str(t).uri : t \in {TxtGet, TxtOtherHost, TxtAuthority}}

BuiltEndpoints ==
    {from_uri(u) : u \in EndpointUris}
    \cup {from_service_region(svc, region).uri : svc \in Services, region \in Regions}

InitConcurrent ==
    /\ endpoint \in {f \in [Endpoints -> {Absent(NoUri)} \cup {Some(e) : e \in BuiltEndpoints}] :
                       \A d \in Endpoints : f[d].some <=> d = Shared}
    /\ ctor = [d \in Endpoints |-> IF d = Shared
                                   THEN [NoCtor EXCEPT !.name = "built", !.arg = endpoint[d].val]
                                   ELSE NoCtor]
    /\ InitRequests(Requests, ConcurrentUris, {Shared})

NextConcurrent ==
    \/ \E r \in Requests : applied[r] = <<>> /\ EndpointMiddlewareApply(r)
    \/ \E r \in Requests, d \in Endpoints : applied[r] = <<>> /\ BlanketApply(r, d)
    \/ \E r \in Requests : SetEndpointApply(r)
    \/ \E r \in Requests : SetEndpointAssign(r)
    \/ \E r \in Requests : MiddlewareReturn(r)

SpecConcurrent == InitConcurrent /\ [][NextConcurrent]_vars

\* The naming template: from_service_region on every pair of names.
InitTemplate == InitEndpoints /\ InitRequests({}, RequestUris, Endpoints)

NextTemplate == \E svc \in Names, region \in Names : FromServiceRegion(Shared, svc, region)

SpecTemplate == InitTemplate /\ [][NextTemplate]_vars

\* ---------------------------------------------------------------- claims
\* the descriptor whose set_endpoint runs, or last ran, on request r
Provider(r) == endpoint[self[r]].val

\* request r holds the URI that apply returned for its current step
Computed(r) == pc[r] \in {"assign", "return"}

\* the step last called on request r has returned
ReturnedOk(r) == pc[r] = "idle" /\ applied[r] # <<>>

Last(q) == q[Len(q)]

\* C1: the path-and-query of D.apply(R) is the path-and-query of R: the same
\* stored text, the same path and the same query, whatever D's own are.
C1_PathAndQueryKept ==
    \A r \in Requests :
        Computed(r) =>
            /\ path_and_query(new_uri[r]) = path_and_query(pre[r])
            /\ path(new_uri[r]) = path(pre[r])
            /\ query(new_uri[r]) = query(pre[r])

C1_Witness ==
    \E r \in Requests :
        /\ Computed(r)
        /\ query(pre[r]).some
        /\ query(Provider(r)).some
        /\ path(Provider(r)) # path(pre[r])
        /\ query(Provider(r)) # query(pre[r])

\* C2: the scheme and the authority of D.apply(R) are D's, whether R had
\* others or none.
C2_SchemeAuthorityOfDescriptor ==
    \A r \in Requests :
        Computed(r) =>
            /\ scheme(new_uri[r]) = scheme(Provider(r))
            /\ authority(new_uri[r]) = authority(Provider(r))

C2_Witness ==
    \E r \in Requests :
        /\ Computed(r)
        /\ scheme(pre[r]).some /\ scheme(pre[r]) # scheme(Provider(r))
        /\ authority(pre[r]).some /\ authority(pre[r]) # authority(Provider(r))

C4_Idempotent ==
    \A r \in Requests :
        \A i \in 1..(Len(applied[r]) - 1) :
            endpoint[applied[r][i].d] = endpoint[applied[r][i + 1].d]
                => trail[r][i + 2] = trail[r][i + 1]

C4_Witness ==
    \E r \in Requests :
        /\ Len(applied[r]) >= 2
        /\ applied[r][1].d = applied[r][2].d
        /\ trail[r][2] # trail[r][1]
        /\ Provider(r).path_and_query # <<>>

\* C5: when a step has returned, the request's URI is D.apply of the URI it
\* had at the call: D's scheme and authority, the path and query of the call.
\* D is the request's endpoint_config for EndpointMiddleware and the step
\* itself for the blanket implementation.
C5_OverwrittenInPlace ==
    \A r \in Requests :
        ReturnedOk(r) =>
            LET D == endpoint[Last(applied[r]).d].val
            IN  /\ path_and_query(pre[r]).some
                /\ request[r].uri = apply(D, pre[r]).uri
                /\ scheme(request[r].uri) = scheme(D)
                /\ authority(request[r].uri) = authority(D)
                /\ path(request[r].uri) = path(pre[r])
                /\ query(request[r].uri) = query(pre[r])
                /\ Last(applied[r]).via = "EndpointMiddleware"
                      => Last(applied[r]).d = request[r].endpoint_config

C5_Witness ==
    \E r \in Requests :
        /\ ReturnedOk(r)
        /\ Len(applied[r]) >= 2
        /\ applied[r][1].via = "EndpointMiddleware"
        /\ applied[r][2].via = "blanket"
        /\ applied[r][2].d # request[r].endpoint_config
        /\ request[r].uri # pre[r]

WellFormed(e) == scheme(e).some /\ authority(e).some

\* no step, and no later construction, changes a descriptor that exists
DescriptorsFrozen == \A d \in Endpoints : endpoint[d].some => endpoint'[d] = endpoint[d]

\* C6 as stated: every descriptor built by from_service_region or from_uri has
\* a scheme and an authority, present and non-empty, and no operation changes
\* a descriptor after its construction.
C6_AlwaysWellFormed ==
    /\ [](\A d \in Endpoints : endpoint[d].some => WellFormed(endpoint[d].val))
    /\ [][DescriptorsFrozen]_vars

\* C6 amended: a descriptor built by from_service_region has a scheme and an
\* authority, present and non-empty; one built by from_uri is the URI it was
\* given, so it has them exactly when that URI does; no operation changes a
\* descriptor after its construction.
C6_WellFormedAsGiven ==
    /\ [](\A d \in Endpoints :
            /\ endpoint[d].some <=> ctor[d].name \in {"from_service_region", "from_uri"}
            /\ ctor[d].name = "from_service_region" => WellFormed(endpoint[d].val)
            /\ ctor[d].name = "from_uri" => endpoint[d].val = ctor[d].arg)
    /\ [][DescriptorsFrozen]_vars

C6_Witness ==
    /\ \E d \in Endpoints : ctor[d].name = "from_service_region" /\ endpoint[d].some
    /\ \E d \in Endpoints : ctor[d].name = "from_uri" /\ ~WellFormed(endpoint[d].val)
    /\ \E r \in Requests : pc[r] = "panicked" /\ applied[r] # <<>> /\ ~WellFormed(Provider(r))

\* the step called on request r has run apply
Applied(r) == self[r] # 0 /\ pc[r] # "set_endpoint"

\* C7: when the descriptor lacks a scheme or an authority, or the request URI
\* lacks a path-and-query, apply panics with the message of the first failed
\* requirement: the step returns neither Ok nor Err and the request keeps the
\* URI it had; a URI that apply does return has a
\* scheme, an authority and a path-and-query.
C7_HaltsOnViolation ==
    \A r \in Requests :
        /\ (Applied(r) /\ (~WellFormed(Provider(r)) \/ ~path_and_query(pre[r]).some)) =>
              /\ pc[r] = "panicked"
              /\ panic[r] = (IF ~authority(Provider(r)).some THEN "base uri must have an authority"
                             ELSE IF ~scheme(Provider(r)).some THEN "base uri must have scheme"
                             ELSE UnwrapNone)
              /\ result[r] = "none"
              /\ request[r].uri = pre[r]
        /\ Computed(r) =>
              /\ WellFormed(new_uri[r])
              /\ path_and_query(new_uri[r]).some

C7_Witness ==
    \E r \in Requests :
        /\ pc[r] = "panicked"
        /\ authority(Provider(r)).some
        /\ ~scheme(Provider(r)).some
        /\ panic[r] = "base uri must have scheme"

\* C8: a middleware apply that returns, returns Ok(()): no request ever gets
\* an Err from the step, through EndpointMiddleware or the blanket
\* implementation.
C8_AlwaysOk ==
    \A r \in Requests :
        /\ result[r] \in {"none", "Ok"}
        /\ ReturnedOk(r) => result[r] = "Ok"
        /\ pc[r] = "panicked" => result[r] = "none"

C8_Witness ==
    \E r \in Requests :
        /\ ReturnedOk(r)
        /\ result[r] = "Ok"
        /\ \E i, j \in 1..Len(applied[r]) :
              applied[r][i].via = "EndpointMiddleware" /\ applied[r][j].via = "blanket"

\* C9: with several requests stepping in any interleaving over one shared
\* descriptor, no step changes the descriptor or another request's URI, and a
\* request's final URI is D.apply of the URI it entered with.
C9_Isolated ==
    /\ [](\A r \in Requests :
            ReturnedOk(r) => request[r].uri = apply(endpoint[Shared].val, trail[r][1]).uri)
    /\ [][/\ endpoint' = endpoint
          /\ \A r \in Requests :
                request'[r] # request[r] =>
                    /\ pc[r] = "assign"
                    /\ \A q \in Requests \ {r} : request'[q] = request[q]]_vars

C9_Witness ==
    \E r, q \in Requests :
        /\ r # q
        /\ pc[r] = "assign"
        /\ pc[q] = "return"
        /\ pre[r] # pre[q]
        /\ new_uri[r] # new_uri[q]

\* C10: after any non-empty sequence of set_endpoint calls the URI has the
\* scheme and authority of the last descriptor and the path-and-query it
\* entered with, as if only the last descriptor had been applied; and a step
\* that follows a returned one never panics for a missing path-and-query.
C10_LastDescriptorWins ==
    \A r \in Requests :
        /\ ReturnedOk(r) =>
              LET D == endpoint[Last(applied[r]).d].val
              IN  /\ scheme(request[r].uri) = scheme(D)
                  /\ authority(request[r].uri) = authority(D)
                  /\ path_and_query(request[r].uri) = path_and_query(trail[r][1])
                  /\ request[r].uri = apply(D, trail[r][1]).uri
        /\ panic[r] = UnwrapNone => applied[r] = <<>>

C10_Witness ==
    \E r \in Requests :
        /\ ReturnedOk(r)
        /\ Len(applied[r]) >= 2
        /\ scheme(endpoint[applied[r][1].d].val) # scheme(endpoint[applied[r][2].d].val)
        /\ authority(endpoint[applied[r][1].d].val) # authority(endpoint[applied[r][2].d].val)
====
